---- MODULE Spec2Model ----
(***************************************************************************)
(* A model of the paper-trading bot: the Portfolio ledger (portfolio.py),  *)
(* the JSON DataManager (data_manager.py), the moving-average strategy     *)
(* (moving_average_strategy.py) and the App orchestrator with its live     *)
(* window (app.py).                                                        *)
(*                                                                         *)
(* Python floats are modelled as exact rationals [n, d] in lowest terms    *)
(* with d > 0; Python's None is the value None below (d = 0).  Rounding of *)
(* IEEE doubles is therefore outside the model.                            *)
(***************************************************************************)
EXTENDS Integers, Sequences, FiniteSets, TLC

VARIABLES
    portfolio,   \* the Portfolio object: _usdt_balance, _crypto_balance, asset, _trade_history
    last,        \* the last call made on the Portfolio, with its arguments and outcome
    calls,       \* number of calls made so far (also the logical clock of utcnow())
    prev,        \* the call made before the last one
    files,       \* the file system: path -> [exists, toks], toks the file's text as JSON tokens
    json_path,   \* DataManager.json_path
    app,         \* the App object: _is_running, _pair, _capital, _binance_client, _strategy,
                 \* and whether _portfolio is set (the Portfolio itself is portfolio)
    threads      \* the threads that run beside the caller: where each one is in its
                 \* code, and its local variables

vars == <<portfolio, last, calls, prev, files, json_path, app, threads>>
storeVars == <<prev, files, json_path, app, threads>>

\* No thread runs beside the caller.
NoThreads == [pc |-> "none"]

(***************************************************************************)
(* Bounds of the model.                                                    *)
(***************************************************************************)
MaxCalls == 3
MaxStoreCalls == 4
MaxAppCalls == 3
MaxStrategyCalls == 2
MaxLiveCalls == 2
MaxBotCalls == 3
MaxSeries == 3
MaxRows == 3

(***************************************************************************)
(* Exact rational arithmetic standing for Python float arithmetic.         *)
(***************************************************************************)
None == [n |-> 0, d |-> 0]

Abs(x) == IF x < 0 THEN -x ELSE x

RECURSIVE GCD(_, _)
GCD(a, b) == IF b = 0 THEN a ELSE GCD(b, a % b)

Norm(n, d) ==
    LET g == GCD(Abs(n), Abs(d))
        s == IF d < 0 THEN -1 ELSE 1
    IN  [n |-> (s * n) \div g, d |-> (s * d) \div g]

R(k) == [n |-> k, d |-> 1]

RAdd(a, b) == Norm(a.n * b.d + b.n * a.d, a.d * b.d)
RSub(a, b) == Norm(a.n * b.d - b.n * a.d, a.d * b.d)
RMul(a, b) == Norm(a.n * b.n, a.d * b.d)
RDiv(a, b) == Norm(a.n * b.d, a.d * b.n)
RLt(a, b) == a.n * b.d < b.n * a.d
RLe(a, b) == a.n * b.d <= b.n * a.d
RGt(a, b) == RLt(b, a)
RGe(a, b) == RLe(b, a)
Zero == R(0)

(***************************************************************************)
(* Portfolio (portfolio.py).                                               *)
(***************************************************************************)
\* Portfolio.__init__
NewPortfolio(initial_capital) ==
    [usdt_balance |-> initial_capital,
     crypto_balance |-> Zero,
     trade_history |-> <<>>,
     asset |-> Zero]

\* The trade dict built by update_balance for a BUY.
BuyTrade(price, quantity, cost, timestamp) ==
    [side |-> "BUY", price |-> price, quantity |-> quantity,
     cost |-> cost, timestamp |-> timestamp]

\* The trade dict built by update_balance for a SELL.
SellTrade(price, quantity, proceeds, timestamp) ==
    [side |-> "SELL", price |-> price, quantity |-> quantity,
     proceeds |-> proceeds, timestamp |-> timestamp]

\* update_balance with the SELL branch's append forgotten.
update_balance_SellNotRecorded(pf, price, quantity, side, timestamp) ==
    IF side = "BUY"
    THEN LET cost == RMul(price, quantity)
         IN  [pf EXCEPT
                !.usdt_balance = RSub(pf.usdt_balance, cost),
                !.crypto_balance = RAdd(pf.crypto_balance, quantity),
                !.trade_history =
                    Append(pf.trade_history, BuyTrade(price, quantity, cost, timestamp))]
    ELSE LET proceeds == RMul(price, quantity)
         IN  [pf EXCEPT
                !.crypto_balance = RSub(pf.crypto_balance, quantity),
                !.usdt_balance = RAdd(pf.usdt_balance, proceeds)]

\* update_balance keeping only the latest trade of each call: the trade
\* replaces the history instead of extending it.
update_balance_HistoryReplaced(pf, price, quantity, side, timestamp) ==
    IF side = "BUY"
    THEN LET cost == RMul(price, quantity)
         IN  [pf EXCEPT
                !.usdt_balance = RSub(pf.usdt_balance, cost),
                !.crypto_balance = RAdd(pf.crypto_balance, quantity),
                !.trade_history = <<BuyTrade(price, quantity, cost, timestamp)>>]
    ELSE LET proceeds == RMul(price, quantity)
         IN  [pf EXCEPT
                !.crypto_balance = RSub(pf.crypto_balance, quantity),
                !.usdt_balance = RAdd(pf.usdt_balance, proceeds),
                !.trade_history = <<SellTrade(price, quantity, proceeds, timestamp)>>]

\* Portfolio.update_balance: the portfolio after the call (side is "BUY" or
\* "SELL" at both call sites, so the ValueError branch is never taken).
update_balance(pf, price, quantity, side, timestamp) ==
    IF side = "BUY"
    THEN LET cost == RMul(price, quantity)
         IN  [pf EXCEPT
                !.usdt_balance = RSub(pf.usdt_balance, cost),
                !.crypto_balance = RAdd(pf.crypto_balance, quantity),
                !.trade_history =
                    Append(pf.trade_history, BuyTrade(price, quantity, cost, timestamp))]
    ELSE LET proceeds == RMul(price, quantity)
         IN  [pf EXCEPT
                !.crypto_balance = RSub(pf.crypto_balance, quantity),
                !.usdt_balance = RAdd(pf.usdt_balance, proceeds),
                !.trade_history =
                    Append(pf.trade_history, SellTrade(price, quantity, proceeds, timestamp))]

\* The default of the mode parameter of execute_buy / execute_sell.
Omitted == "omitted"
ModeOf(mode) == IF mode = Omitted THEN "auto" ELSE mode

\* execute_buy, lines 148-156: the fiat amount the sizing arguments resolve to.
BuyAmount(pf, amount_usdt, percent, mode) ==
    IF ModeOf(mode) = "auto" THEN pf.usdt_balance
    ELSE IF percent # None THEN RMul(pf.usdt_balance, RDiv(percent, R(100)))
    ELSE amount_usdt

\* execute_buy, lines 165-170: the mutation of a buy that passed the checks.
BuyEffect(pf, price, amount, timestamp) ==
    LET quantity == RDiv(amount, price)
        pf1 == [pf EXCEPT !.asset = RAdd(pf.asset, quantity),
                          !.usdt_balance = RSub(pf.usdt_balance, amount)]
    IN  update_balance(pf1, price, quantity, "BUY", timestamp)

\* execute_buy with the balance check made after the debit instead of before.
execute_buy_CheckAfterDebit(pf, price, amount_usdt, percent, mode, timestamp) ==
    LET amount == BuyAmount(pf, amount_usdt, percent, mode)
    IN  IF amount = None
        THEN [pf |-> pf, raised |-> "ValueError", ret |-> None]
        ELSE IF price = Zero
        THEN [pf |-> pf, raised |-> "ZeroDivisionError", ret |-> None]
        ELSE IF RGt(amount, pf.usdt_balance)
        THEN [pf |-> [pf EXCEPT !.asset = RAdd(pf.asset, RDiv(amount, price)),
                                !.usdt_balance = RSub(pf.usdt_balance, amount)],
              raised |-> "RuntimeError", ret |-> None]
        ELSE [pf |-> BuyEffect(pf, price, amount, timestamp),
              raised |-> "none",
              ret |-> RDiv(amount, price)]

\* Portfolio.execute_buy: the portfolio after the call, the exception raised
\* ("none" when it returns) and the value returned.
execute_buy(pf, price, amount_usdt, percent, mode, timestamp) ==
    LET amount == BuyAmount(pf, amount_usdt, percent, mode)
    IN  IF amount = None
        THEN [pf |-> pf, raised |-> "ValueError", ret |-> None]
        ELSE IF RGt(amount, pf.usdt_balance)
        THEN [pf |-> pf, raised |-> "RuntimeError", ret |-> None]
        ELSE IF price = Zero
        THEN [pf |-> pf, raised |-> "ZeroDivisionError", ret |-> None]
        ELSE [pf |-> BuyEffect(pf, price, amount, timestamp),
              raised |-> "none",
              ret |-> RDiv(amount, price)]

\* execute_sell, lines 182-190: the quantity the sizing arguments resolve to.
SellQuantity(pf, quantity, percent, mode) ==
    IF ModeOf(mode) = "auto" THEN pf.asset
    ELSE IF percent # None THEN RMul(pf.asset, RDiv(percent, R(100)))
    ELSE quantity

\* The mutation of a sell without line 201: the asset counter is not lowered.
SellEffect_AssetKept(pf, price, quantity, timestamp) ==
    LET proceeds == RMul(quantity, price)
        pf1 == [pf EXCEPT !.usdt_balance = RAdd(pf.usdt_balance, proceeds)]
    IN  update_balance(pf1, price, quantity, "SELL", timestamp)

\* execute_sell, lines 199-204: the mutation of a sell that passed the checks.
SellEffect(pf, price, quantity, timestamp) ==
    LET proceeds == RMul(quantity, price)
        pf1 == [pf EXCEPT !.asset = RSub(pf.asset, quantity),
                          !.usdt_balance = RAdd(pf.usdt_balance, proceeds)]
    IN  update_balance(pf1, price, quantity, "SELL", timestamp)

\* Portfolio.execute_sell: as execute_buy; it returns the quantity sold.
execute_sell(pf, price, quantity, percent, mode, timestamp) ==
    LET q == SellQuantity(pf, quantity, percent, mode)
    IN  IF q = None
        THEN [pf |-> pf, raised |-> "ValueError", ret |-> None]
        ELSE IF RGt(q, pf.asset)
        THEN [pf |-> pf, raised |-> "RuntimeError", ret |-> None]
        ELSE [pf |-> SellEffect(pf, price, q, timestamp),
              raised |-> "none",
              ret |-> q]

\* get_total_value_usdt with the parentheses misplaced: the fiat balance is
\* multiplied by the price as well.
get_total_value_usdt_PricesFiat(pf, current_price) ==
    RMul(RAdd(pf.usdt_balance, pf.crypto_balance), current_price)

\* Portfolio.get_total_value_usdt
get_total_value_usdt(pf, current_price) ==
    RAdd(pf.usdt_balance, RMul(pf.crypto_balance, current_price))


(***************************************************************************)
(* JSON text (json.dump / json.load).  A file's text is a sequence of      *)
(* tokens: the brackets, object keys, numbers, strings and null.  Commas,  *)
(* colons and white space are left out, and an object's keys are written   *)
(* in one fixed order.  A Python dict is a function on its keys, a list a  *)
(* sequence.                                                               *)
(***************************************************************************)
Tok(k, str, n, d) == [k |-> k, s |-> str, n |-> n, d |-> d]
Punct(c) == Tok(c, "", 0, 0)
KeyTok(name) == Tok("key", name, 0, 0)
StrTok(str) == Tok("str", str, 0, 0)
TimeTok(t) == Tok("time", "", t, 0)
NullTok == Tok("null", "", 0, 0)
\* Bytes that are not UTF-8 text.
BadBytes == Tok("bytes", "", 0, 0)
\* f.read() of a file opened with encoding="utf-8" decodes the whole file.
Decodable(toks) == \A i \in DOMAIN toks : toks[i] # BadBytes
NumTok(x) == IF x = None THEN NullTok ELSE Tok("num", "", x.n, x.d)

\* json.dump of one trade dict.
EncodeTrade(t) ==
    <<Punct("{"),
      KeyTok("side"), StrTok(t.side),
      KeyTok("price"), NumTok(t.price),
      KeyTok("quantity"), NumTok(t.quantity)>>
    \o (IF "cost" \in DOMAIN t
        THEN <<KeyTok("cost"), NumTok(t.cost)>>
        ELSE <<KeyTok("proceeds"), NumTok(t.proceeds)>>)
    \o <<KeyTok("timestamp"), TimeTok(t.timestamp), Punct("}")>>

RECURSIVE EncodeTradeItems(_)
EncodeTradeItems(trades) ==
    IF trades = <<>> THEN <<>>
    ELSE EncodeTrade(Head(trades)) \o EncodeTradeItems(Tail(trades))

\* json.dump of a list of trades.
EncodeTrades(trades) == <<Punct("[")>> \o EncodeTradeItems(trades) \o <<Punct("]")>>

\* json.dump of a state dict (the keys it has among the three of the layout).
EncodeState(state) ==
    <<Punct("{")>>
    \o (IF "trades" \in DOMAIN state
        THEN <<KeyTok("trades")>> \o EncodeTrades(state["trades"]) ELSE <<>>)
    \o (IF "usdt_balance" \in DOMAIN state
        THEN <<KeyTok("usdt_balance"), NumTok(state["usdt_balance"])>> ELSE <<>>)
    \o (IF "crypto_balance" \in DOMAIN state
        THEN <<KeyTok("crypto_balance"), NumTok(state["crypto_balance"])>> ELSE <<>>)
    \o <<Punct("}")>>

\* A Python value as json.load returns it: its type and the value.
Py(kind, v) == [kind |-> kind, v |-> v]

\* json.dump of a value data_manager.py writes: a dict or a list of trades.
json_dump(data) ==
    IF data.kind = "list" THEN EncodeTrades(data.v) ELSE EncodeState(data.v)

EmptyDict == [k \in {} |-> None]
ParseFail == [ok |-> FALSE, kind |-> "", v |-> None, next |-> 0]
ParseOk(kind, v, next) == [ok |-> TRUE, kind |-> kind, v |-> v, next |-> next]

RECURSIVE ParseValue(_, _), ParseMembers(_, _, _), ParseItems(_, _, _)
\* The JSON value starting at token i.
ParseValue(toks, i) ==
    IF i > Len(toks) THEN ParseFail
    ELSE LET t == toks[i]
         IN  CASE t.k = "num"  -> ParseOk("float", [n |-> t.n, d |-> t.d], i + 1)
               [] t.k = "null" -> ParseOk("NoneType", None, i + 1)
               [] t.k = "str"  -> ParseOk("str", t.s, i + 1)
               [] t.k = "time" -> ParseOk("str", t.n, i + 1)
               [] t.k = "{"    -> ParseMembers(toks, i + 1, EmptyDict)
               [] t.k = "["    -> ParseItems(toks, i + 1, <<>>)
               [] OTHER        -> ParseFail

\* The members of an object up to its closing brace; a repeated key keeps
\* its last value.
ParseMembers(toks, i, acc) ==
    IF i > Len(toks) THEN ParseFail
    ELSE IF toks[i].k = "}" THEN ParseOk("dict", acc, i + 1)
    ELSE IF toks[i].k # "key" THEN ParseFail
    ELSE LET r == ParseValue(toks, i + 1)
         IN  IF ~r.ok THEN ParseFail
             ELSE ParseMembers(toks, r.next, (toks[i].s :> r.v) @@ acc)

\* The items of an array up to its closing bracket.
ParseItems(toks, i, acc) ==
    IF i > Len(toks) THEN ParseFail
    ELSE IF toks[i].k = "]" THEN ParseOk("list", acc, i + 1)
    ELSE LET r == ParseValue(toks, i)
         IN  IF ~r.ok THEN ParseFail
             ELSE ParseItems(toks, r.next, Append(acc, r.v))

\* json.load: the value of a text that is exactly one JSON value, and a
\* JSONDecodeError (ok = FALSE) for any other text.
json_load(toks) ==
    LET r == ParseValue(toks, 1)
    IN  IF r.ok /\ r.next = Len(toks) + 1 THEN r ELSE ParseFail

(***************************************************************************)
(* DataManager (data_manager.py).                                          *)
(***************************************************************************)
Paths == {"trades.json", "json.data"}
DefaultPath == "trades.json"

Absent == [exists |-> FALSE, toks |-> <<>>]
FileOf(toks) == [exists |-> TRUE, toks |-> toks]

\* open(path, "w") ... json.dump(data, f)
WriteFile(fs, path, data) == [fs EXCEPT ![path] = FileOf(json_dump(data))]

\* Portfolio.save_trades_to_file: the files after the call.
save_trades_to_file(fs, filename, pf) ==
    WriteFile(fs, filename, Py("dict", [trades |-> pf.trade_history]))

\* {"trades": [], "usdt_balance": None, "crypto_balance": None}
StateDict(trades, usdt, crypto) ==
    [trades |-> trades, usdt_balance |-> usdt, crypto_balance |-> crypto]
DefaultState == StateDict(<<>>, None, None)

\* DataManager.__init__: the files after construction.
dm_init(fs, path) ==
    IF fs[path].exists THEN fs ELSE WriteFile(fs, path, Py("dict", DefaultState))

\* DataManager.set_json_path: the files after the call.
set_json_path(fs, path) ==
    IF fs[path].exists THEN fs ELSE WriteFile(fs, path, Py("list", <<>>))

\* The outcome of a DataManager call: the files after it, the value returned,
\* the exception raised to the caller and the exception handled inside.
Outcome(fs, ret, raised, caught) ==
    [files |-> fs, ret |-> ret, raised |-> raised, caught |-> caught]

\* DataManager.load_data.  A UnicodeDecodeError of the read is neither a
\* JSONDecodeError nor a FileNotFoundError: no handler catches it.
load_data(fs, path) ==
    IF ~fs[path].exists
    THEN Outcome(WriteFile(fs, path, Py("dict", DefaultState)),
                 Py("dict", DefaultState), "none", "FileNotFoundError")
    ELSE IF ~Decodable(fs[path].toks)
    THEN Outcome(fs, Py("NoneType", None), "UnicodeDecodeError", "none")
    ELSE LET r == json_load(fs[path].toks)
         IN  IF ~r.ok
             THEN Outcome(WriteFile(fs, path, Py("dict", DefaultState)),
                          Py("dict", DefaultState), "none", "JSONDecodeError")
             ELSE Outcome(fs, Py(r.kind, r.v), "none", "none")

\* DataManager.save_data
save_data(fs, path, data) == WriteFile(fs, path, data)

\* dict.get(key, default)
Get(dct, key, default) == IF key \in DOMAIN dct THEN dct[key] ELSE default

\* append_trade writing a fresh structured state: the stored balances are lost.
append_trade_ResetsBalances(fs, path, trade) ==
    LET l == load_data(fs, path)
    IN  IF l.raised # "none"
        THEN Outcome(l.files, None, l.raised, l.caught)
        ELSE IF l.ret.kind \notin {"list", "dict"}
        THEN Outcome(l.files, None, "AttributeError", l.caught)
        ELSE LET state == IF l.ret.kind = "list"
                          THEN StateDict(l.ret.v, None, None)
                          ELSE l.ret.v
                 trades == Append(Get(state, "trades", <<>>), trade)
                 new == StateDict(trades, None, None)
             IN  Outcome(save_data(l.files, path, Py("dict", new)), None, "none", l.caught)

\* DataManager.append_trade.  (No file of the model stores "trades": null,
\* the case of `or []` on line 112.)
append_trade(fs, path, trade) ==
    LET l == load_data(fs, path)
    IN  IF l.raised # "none"
        THEN Outcome(l.files, None, l.raised, l.caught)
        ELSE IF l.ret.kind \notin {"list", "dict"}
        THEN Outcome(l.files, None, "AttributeError", l.caught)
        ELSE LET state == IF l.ret.kind = "list"
                          THEN StateDict(l.ret.v, None, None)
                          ELSE l.ret.v
                 trades == Append(Get(state, "trades", <<>>), trade)
                 new == ("trades" :> trades) @@ state
             IN  Outcome(save_data(l.files, path, Py("dict", new)), None, "none", l.caught)

\* charge_data without the isinstance(state, list) branch: a list has no get.
charge_data_NoListBranch(fs, path) ==
    LET l == load_data(fs, path)
    IN  IF l.raised # "none"
        THEN Outcome(l.files, None, l.raised, l.caught)
        ELSE IF l.ret.kind = "dict"
        THEN Outcome(l.files,
                     StateDict(Get(l.ret.v, "trades", <<>>),
                               Get(l.ret.v, "usdt_balance", None),
                               Get(l.ret.v, "crypto_balance", None)),
                     "none", l.caught)
        ELSE Outcome(l.files, None, "AttributeError", l.caught)

\* DataManager.charge_data
charge_data(fs, path) ==
    LET l == load_data(fs, path)
    IN  IF l.raised # "none"
        THEN Outcome(l.files, None, l.raised, l.caught)
        ELSE IF l.ret.kind = "list"
        THEN Outcome(l.files, StateDict(l.ret.v, None, None), "none", l.caught)
        ELSE IF l.ret.kind = "dict"
        THEN Outcome(l.files,
                     StateDict(Get(l.ret.v, "trades", <<>>),
                               Get(l.ret.v, "usdt_balance", None),
                               Get(l.ret.v, "crypto_balance", None)),
                     "none", l.caught)
        ELSE Outcome(l.files, None, "AttributeError", l.caught)

\* The normalisation with both balances read from the same key.
NormalState_SameKey(state) ==
    StateDict(Get(state, "trades", <<>>),
              Get(state, "usdt_balance", None),
              Get(state, "usdt_balance", None))

\* save_state, lines 144-148: the normalised dict that is written.
NormalState(state) ==
    StateDict(Get(state, "trades", <<>>),
              Get(state, "usdt_balance", None),
              Get(state, "crypto_balance", None))

\* DataManager.save_state
save_state(fs, path, state) ==
    Outcome(WriteFile(fs, path, Py("dict", NormalState(state))), None, "none", "none")

(***************************************************************************)
(* App (app.py).                                                           *)
(***************************************************************************)
NoStrategy == [set |-> FALSE, short_window |-> 0, long_window |-> 0]

\* MovingAverageStrategy.__init__
MovingAverageStrategy(short_window, long_window) ==
    [set |-> TRUE, short_window |-> short_window, long_window |-> long_window]

\* App.__init__ (its DataManager() is dm_init on the default path).
NewApp ==
    [is_running |-> FALSE,
     pair |-> "",
     capital |-> Zero,
     binance_client |-> FALSE,
     has_portfolio |-> FALSE,
     strategy |-> NoStrategy]

\* configure_settings, lines 410-420: the data file is created when missing,
\* then the DataManager is pointed at it.
ConfigureDataFile(fs, path) ==
    set_json_path(
        IF fs[path].exists THEN fs
        ELSE [fs EXCEPT ![path] = FileOf(EncodeState([trades |-> <<>>]))],
        path)

\* App.configure_settings: the App fields after the call.
configure_settings(a, pair, capital, short_window, long_window) ==
    [a EXCEPT !.binance_client = TRUE,
              !.pair = pair,
              !.capital = capital,
              !.has_portfolio = TRUE,
              !.strategy = MovingAverageStrategy(short_window, long_window)]

\* buy_all without the guard on the fiat balance (lines 484-486).
buy_all_NoBalanceGuard(a, pf, price, timestamp) ==
    IF ~a.has_portfolio THEN [pf |-> pf, raised |-> "none", ret |-> None, traded |-> FALSE]
    ELSE IF RLe(IF a.binance_client THEN price ELSE Zero, Zero)
    THEN [pf |-> pf, raised |-> "none", ret |-> None, traded |-> FALSE]
    ELSE LET o == execute_buy(pf, price, None, None, Omitted, timestamp)
         IN  [pf |-> o.pf, raised |-> o.raised, ret |-> o.ret, traded |-> TRUE]

\* App.buy_all: the outcome of execute_buy(price), or no call at all when a
\* guard returns early.
buy_all(a, pf, price, timestamp) ==
    IF ~a.has_portfolio THEN [pf |-> pf, raised |-> "none", ret |-> None, traded |-> FALSE]
    ELSE IF RLe(pf.usdt_balance, Zero)
    THEN [pf |-> pf, raised |-> "none", ret |-> None, traded |-> FALSE]
    ELSE IF RLe(IF a.binance_client THEN price ELSE Zero, Zero)
    THEN [pf |-> pf, raised |-> "none", ret |-> None, traded |-> FALSE]
    ELSE IF RLe(RDiv(pf.usdt_balance, price), Zero)
    THEN [pf |-> pf, raised |-> "none", ret |-> None, traded |-> FALSE]
    ELSE LET o == execute_buy(pf, price, None, None, Omitted, timestamp)
         IN  [pf |-> o.pf, raised |-> o.raised, ret |-> o.ret, traded |-> TRUE]

\* App.sell_all
sell_all(a, pf, price, timestamp) ==
    IF ~a.has_portfolio THEN [pf |-> pf, raised |-> "none", ret |-> None, traded |-> FALSE]
    ELSE IF RLe(pf.crypto_balance, Zero)
    THEN [pf |-> pf, raised |-> "none", ret |-> None, traded |-> FALSE]
    ELSE IF RLe(IF a.binance_client THEN price ELSE Zero, Zero)
    THEN [pf |-> pf, raised |-> "none", ret |-> None, traded |-> FALSE]
    ELSE LET o == execute_sell(pf, price, None, None, Omitted, timestamp)
         IN  [pf |-> o.pf, raised |-> o.raised, ret |-> o.ret, traded |-> TRUE]

(***************************************************************************)
(* MovingAverageStrategy (moving_average_strategy.py).  The file holds the *)
(* constructor and the window properties; of calculate_indicators and      *)
(* check_signal it holds the declarations only (a docstring and `pass`),   *)
(* and their bodies are modelled from section 4.1 of the specification.    *)
(* A candle is its close price; a row is a candle with its two averages,   *)
(* None for an average that is not defined.                                *)
(***************************************************************************)
Row(close, short_ma, long_ma) ==
    [close |-> close, short_ma |-> short_ma, long_ma |-> long_ma]

RECURSIVE SumSeq(_)
SumSeq(xs) == IF xs = <<>> THEN Zero ELSE RAdd(Head(xs), SumSeq(Tail(xs)))

Max(a, b) == IF a >= b THEN a ELSE b

\* The rolling mean that needs a full window: not defined during warm-up.
RollingMean_FullWindow(closes, i, window) ==
    IF i < window THEN None
    ELSE RDiv(SumSeq(SubSeq(closes, i - window + 1, i)), R(window))

\* The mean of the trailing window that ends at position i (1-based) and
\* narrows near the start of the series ("minimum one observation").
RollingMean(closes, i, window) ==
    LET lo == Max(1, i - window + 1)
    IN  RDiv(SumSeq(SubSeq(closes, lo, i)), R(i - lo + 1))

\* calculate_indicators: the rows returned, or the error raised.
calculate_indicators(strategy, closes) ==
    IF \/ strategy.short_window <= 0
       \/ strategy.long_window <= 0
       \/ strategy.short_window >= strategy.long_window
    THEN [raised |-> "InvalidInputError", ret |-> <<>>]
    ELSE [raised |-> "none",
          ret |-> [i \in 1..Len(closes) |->
                     Row(closes[i],
                         RollingMean(closes, i, strategy.short_window),
                         RollingMean(closes, i, strategy.long_window))]]

\* The rows that have both averages.
HasAverages(row) == row.short_ma # None /\ row.long_ma # None

\* check_signal on the level of the last row instead of on the crossing.
check_signal_OnLevel(rows) ==
    LET usable == SelectSeq(rows, HasAverages)
    IN  IF Len(usable) < 2 THEN "HOLD"
        ELSE LET row == usable[Len(usable)]
             IN  IF RGt(row.short_ma, row.long_ma) THEN "BUY"
                 ELSE IF RLt(row.short_ma, row.long_ma) THEN "SELL"
                 ELSE "HOLD"

\* check_signal: the signal of the last two rows that have both averages.
check_signal(rows) ==
    LET usable == SelectSeq(rows, HasAverages)
    IN  IF Len(usable) < 2 THEN "HOLD"
        ELSE LET before == usable[Len(usable) - 1]
                 row == usable[Len(usable)]
             IN  IF RLe(before.short_ma, before.long_ma) /\ RGt(row.short_ma, row.long_ma)
                 THEN "BUY"
                 ELSE IF RGe(before.short_ma, before.long_ma) /\ RLt(row.short_ma, row.long_ma)
                 THEN "SELL"
                 ELSE "HOLD"

(***************************************************************************)
(* Inputs of the Portfolio specification.                                  *)
(***************************************************************************)
InitialCapitals == {R(0), R(50), R(100)}
Prices == {R(-1), R(0), R(10)}
Amounts == {None, R(30), R(100)}
Quantities == {None, R(3), R(100)}
Percents == {None, R(50)}
Modes == {Omitted, "manual"}

NoCall ==
    [op |-> "init", price |-> None, size |-> None, percent |-> None,
     mode |-> Omitted, raised |-> "none", ret |-> None]

Init ==
    /\ \E c \in InitialCapitals : portfolio = NewPortfolio(c)
    /\ last = NoCall
    /\ calls = 0
    /\ prev = NoCall
    /\ files = [p \in Paths |-> Absent]
    /\ json_path = DefaultPath
    /\ app = NewApp
    /\ threads = NoThreads

\* A call of Portfolio.execute_buy with any arguments.
Buy ==
    /\ calls < MaxCalls
    /\ \E price \in Prices, amount_usdt \in Amounts, percent \in Percents, mode \in Modes :
          LET o == execute_buy(portfolio, price, amount_usdt, percent, mode, calls + 1)
          IN  /\ portfolio' = o.pf
              /\ last' = [op |-> "execute_buy", price |-> price, size |-> amount_usdt,
                          percent |-> percent, mode |-> mode,
                          raised |-> o.raised, ret |-> o.ret]
    /\ calls' = calls + 1
    /\ UNCHANGED storeVars

\* A call of Portfolio.execute_sell with any arguments.
Sell ==
    /\ calls < MaxCalls
    /\ \E price \in Prices, quantity \in Quantities, percent \in Percents, mode \in Modes :
          LET o == execute_sell(portfolio, price, quantity, percent, mode, calls + 1)
          IN  /\ portfolio' = o.pf
              /\ last' = [op |-> "execute_sell", price |-> price, size |-> quantity,
                          percent |-> percent, mode |-> mode,
                          raised |-> o.raised, ret |-> o.ret]
    /\ calls' = calls + 1
    /\ UNCHANGED storeVars

\* A call of Portfolio.get_total_value_usdt.
TotalValue ==
    /\ calls < MaxCalls
    /\ \E price \in Prices :
          /\ portfolio' = portfolio
          /\ last' = [op |-> "get_total_value_usdt", price |-> price, size |-> None,
                      percent |-> None, mode |-> Omitted, raised |-> "none",
                      ret |-> get_total_value_usdt(portfolio, price)]
    /\ calls' = calls + 1
    /\ UNCHANGED storeVars

\* A call of Portfolio.save_trades_to_file.
SaveTradesToFile ==
    /\ calls < MaxCalls
    /\ \E filename \in {DefaultPath} :
          /\ files' = save_trades_to_file(files, filename, portfolio)
          /\ last' = [op |-> "save_trades_to_file", price |-> None, size |-> None,
                      percent |-> None, mode |-> Omitted, raised |-> "none", ret |-> None]
    /\ calls' = calls + 1
    /\ UNCHANGED <<portfolio, prev, json_path, app, threads>>

Next == Buy \/ Sell \/ TotalValue \/ SaveTradesToFile

Spec == Init /\ [][Next]_vars

(***************************************************************************)
(* The Portfolio with its balance setters: execute_buy and execute_sell    *)
(* with any arguments, and assignments to the usdt_balance and             *)
(* crypto_balance properties.                                              *)
(***************************************************************************)
SetValues == {R(0), R(2)}

\* usdt_balance.setter
set_usdt_balance(pf, value) == [pf EXCEPT !.usdt_balance = value]

\* crypto_balance.setter: it assigns _crypto_balance, and leaves asset alone.
set_crypto_balance(pf, value) == [pf EXCEPT !.crypto_balance = value]

\* portfolio.usdt_balance = value
SetUsdtBalance ==
    /\ calls < MaxCalls
    /\ \E value \in SetValues :
          /\ portfolio' = set_usdt_balance(portfolio, value)
          /\ last' = [op |-> "usdt_balance.setter", price |-> None, size |-> value,
                      percent |-> None, mode |-> Omitted, raised |-> "none", ret |-> None]
    /\ calls' = calls + 1
    /\ UNCHANGED storeVars

\* portfolio.crypto_balance = value
SetCryptoBalance ==
    /\ calls < MaxCalls
    /\ \E value \in SetValues :
          /\ portfolio' = set_crypto_balance(portfolio, value)
          /\ last' = [op |-> "crypto_balance.setter", price |-> None, size |-> value,
                      percent |-> None, mode |-> Omitted, raised |-> "none", ret |-> None]
    /\ calls' = calls + 1
    /\ UNCHANGED storeVars

SettersNext == Buy \/ Sell \/ SetUsdtBalance \/ SetCryptoBalance

SpecSetters == Init /\ [][SettersNext]_vars

(***************************************************************************)
(* The DataManager specification: any sequence of DataManager calls on one *)
(* DataManager, with the environment free to damage or delete its file.    *)
(***************************************************************************)
Trade1 == BuyTrade(R(10), R(5), R(50), 1)
Trade2 == SellTrade(R(10), [n |-> 7, d |-> 2], R(35), 2)
SomeTrades == {Trade1, Trade2}

\* What a file may hold before the program first runs.
Truncated(toks) == SubSeq(toks, 1, Len(toks) \div 2)
OldContents ==
    {Absent,
     FileOf(EncodeState(DefaultState)),
     FileOf(EncodeState(StateDict(<<Trade1>>, R(50), R(5)))),
     FileOf(EncodeState([trades |-> <<>>])),
     FileOf(EncodeTrades(<<Trade1>>)),
     FileOf(Truncated(EncodeState(StateDict(<<Trade1>>, R(50), R(5))))),
     FileOf(<<>>),
     FileOf(<<BadBytes>>),
     FileOf(<<NullTok>>)}
OtherContents == {Absent, FileOf(EncodeTrades(<<Trade2>>))}

\* The states handed to save_state: well-formed ones, and one with keys missing.
SomeStates ==
    {DefaultState,
     StateDict(<<Trade1>>, R(50), R(5)),
     StateDict(<<Trade1, Trade2>>, [n |-> -35, d |-> 2], Zero),
     [trades |-> <<Trade2>>]}
WellFormed(state) == DOMAIN state = {"trades", "usdt_balance", "crypto_balance"}

StoreCall(op, arg, o) ==
    [op |-> op, arg |-> arg, ret |-> o.ret, raised |-> o.raised, caught |-> o.caught]
NoOutcome == [ret |-> None, raised |-> "none", caught |-> "none"]

\* DataManager() on a file system holding any old contents.
StoreInit ==
    /\ \E c \in OldContents, c2 \in OtherContents :
          files = dm_init([p \in Paths |-> IF p = DefaultPath THEN c ELSE c2], DefaultPath)
    /\ json_path = DefaultPath
    /\ last = StoreCall("init", None, NoOutcome)
    /\ prev = StoreCall("init", None, NoOutcome)
    /\ calls = 0
    /\ portfolio = NewPortfolio(Zero)
    /\ app = NewApp
    /\ threads = NoThreads

\* What every DataManager call does to the call record.
Called(op, arg, o) ==
    /\ calls < MaxStoreCalls
    /\ calls' = calls + 1
    /\ prev' = last
    /\ last' = StoreCall(op, arg, o)
    /\ UNCHANGED <<portfolio, app, threads>>

SetJsonPath ==
    \E path \in Paths :
        /\ files' = set_json_path(files, path)
        /\ json_path' = path
        /\ Called("set_json_path", None, NoOutcome)

LoadData ==
    LET o == load_data(files, json_path)
    IN  /\ files' = o.files
        /\ Called("load_data", None, o)
        /\ UNCHANGED json_path

AppendTrade ==
    \E trade \in SomeTrades :
        LET o == append_trade(files, json_path, trade)
        IN  /\ files' = o.files
            /\ Called("append_trade", trade, o)
            /\ UNCHANGED json_path

ChargeData ==
    LET o == charge_data(files, json_path)
    IN  /\ files' = o.files
        /\ Called("charge_data", None, o)
        /\ UNCHANGED json_path

SaveState ==
    \E state \in SomeStates :
        LET o == save_state(files, json_path, state)
        IN  /\ files' = o.files
            /\ Called("save_state", state, o)
            /\ UNCHANGED json_path

\* The environment cuts the file short (a crash in mid-write), or damages
\* its last bytes (a bad disk).
CorruptFile ==
    /\ files[json_path].exists
    /\ \E k \in {0, Len(files[json_path].toks) \div 2}, damaged \in BOOLEAN :
          /\ k < Len(files[json_path].toks)
          /\ files' = [files EXCEPT ![json_path] =
                  FileOf(SubSeq(files[json_path].toks, 1, k)
                         \o (IF damaged THEN <<BadBytes>> ELSE <<>>))]
    /\ Called("env_corrupt", None, NoOutcome)
    /\ UNCHANGED json_path

\* The environment deletes the file.
DeleteFile ==
    /\ files[json_path].exists
    /\ files' = [files EXCEPT ![json_path] = Absent]
    /\ Called("env_delete", None, NoOutcome)
    /\ UNCHANGED json_path

StoreNext ==
    \/ SetJsonPath
    \/ LoadData
    \/ AppendTrade
    \/ ChargeData
    \/ SaveState
    \/ CorruptFile
    \/ DeleteFile

SpecStore == StoreInit /\ [][StoreNext]_vars

(***************************************************************************)
(* The App specification: the process is started, configured, trades       *)
(* through the action menu, and may exit and be started again.             *)
(***************************************************************************)
Capitals == {R(50), R(100)}
Windows == {0, 2, 4}
LivePrices == {R(0), R(10), R(20)}
AppOldContents ==
    {Absent,
     FileOf(EncodeState(StateDict(<<Trade1>>, R(50), R(5)))),
     FileOf(<<>>)}

AppCall(op, price, o) ==
    [op |-> op, price |-> price, raised |-> o.raised, ret |-> o.ret, traded |-> o.traded]
NoTrade == [raised |-> "none", ret |-> None, traded |-> FALSE]

\* main(): App() on a file system holding any old contents.
AppInit ==
    /\ \E c \in AppOldContents, c2 \in OtherContents :
          files = dm_init([p \in Paths |-> IF p = DefaultPath THEN c ELSE c2], DefaultPath)
    /\ json_path = DefaultPath
    /\ app = NewApp
    /\ portfolio = NewPortfolio(Zero)
    /\ last = AppCall("init", None, NoTrade)
    /\ prev = AppCall("init", None, NoTrade)
    /\ calls = 0
    /\ threads = NoThreads

AppCalled(op, price, o) ==
    /\ calls < MaxAppCalls
    /\ calls' = calls + 1
    /\ prev' = last
    /\ last' = AppCall(op, price, o)
    /\ UNCHANGED threads

ConfigureSettings ==
    \E capital \in Capitals, short_window \in Windows, long_window \in Windows,
       path \in Paths :
        /\ app' = configure_settings(app, "BTCUSDT", capital, short_window, long_window)
        /\ portfolio' = NewPortfolio(capital)
        /\ files' = ConfigureDataFile(files, path)
        /\ json_path' = path
        /\ AppCalled("configure_settings", None, NoTrade)

BuyAll ==
    \E price \in LivePrices :
        LET o == buy_all(app, portfolio, price, calls + 1)
        IN  /\ portfolio' = o.pf
            /\ AppCalled("buy_all", price, o)
            /\ UNCHANGED <<files, json_path, app>>

SellAll ==
    \E price \in LivePrices :
        LET o == sell_all(app, portfolio, price, calls + 1)
        IN  /\ portfolio' = o.pf
            /\ AppCalled("sell_all", price, o)
            /\ UNCHANGED <<files, json_path, app>>

\* The process exits and is started again: only the files survive.
Restart ==
    /\ app' = NewApp
    /\ portfolio' = NewPortfolio(Zero)
    /\ files' = dm_init(files, DefaultPath)
    /\ json_path' = DefaultPath
    /\ AppCalled("restart", None, NoTrade)

AppNext == ConfigureSettings \/ BuyAll \/ SellAll \/ Restart

SpecApp == AppInit /\ [][AppNext]_vars

(***************************************************************************)
(* The strategy specification: a MovingAverageStrategy with any windows,   *)
(* its window setters, and its two operations on any series and rows.      *)
(***************************************************************************)
StrategyWindows == {0, 1, 2, 3}
Closes == {R(1), R(2), R(4)}

RECURSIVE SeqsUpTo(_, _)
\* The sequences over S of length at most n.
SeqsUpTo(S, n) ==
    IF n = 0 THEN {<<>>}
    ELSE LET shorter == SeqsUpTo(S, n - 1)
         IN  shorter \cup {Append(x, e) : x \in {y \in shorter : Len(y) = n - 1}, e \in S}

Series == SeqsUpTo(Closes, MaxSeries)

\* Rows as a caller may hand them to check_signal: with the short average
\* below, at or above the long one, or with no averages yet.
RowChoices ==
    {Row(R(1), None, None), Row(R(1), R(1), R(2)), Row(R(2), R(2), R(2)), Row(R(4), R(3), R(2))}
HandRows == SeqsUpTo(RowChoices, MaxRows)

StrategyCall(op, data, strategy, o) ==
    [op |-> op, data |-> data, short_window |-> strategy.short_window,
     long_window |-> strategy.long_window, raised |-> o.raised, ret |-> o.ret]
NoResult == [raised |-> "none", ret |-> <<>>]

\* MovingAverageStrategy(short_window, long_window), as configure_settings
\* makes it: with any windows.
StrategyInit ==
    /\ \E short_window \in StrategyWindows, long_window \in StrategyWindows :
          /\ app = [NewApp EXCEPT !.strategy = MovingAverageStrategy(short_window, long_window)]
          /\ last = StrategyCall("init", <<>>, app.strategy, NoResult)
    /\ prev = NoCall
    /\ calls = 0
    /\ portfolio = NewPortfolio(Zero)
    /\ files = [p \in Paths |-> Absent]
    /\ json_path = DefaultPath
    /\ threads = NoThreads

StrategyCalled(op, data, strategy, o) ==
    /\ calls < MaxStrategyCalls
    /\ calls' = calls + 1
    /\ last' = StrategyCall(op, data, strategy, o)
    /\ UNCHANGED <<portfolio, prev, files, json_path, threads>>

\* strategy.short_window = value
SetShortWindow ==
    \E value \in StrategyWindows :
        /\ app' = [app EXCEPT !.strategy.short_window = value]
        /\ StrategyCalled("short_window.setter", <<>>, app'.strategy, NoResult)

\* strategy.long_window = value
SetLongWindow ==
    \E value \in StrategyWindows :
        /\ app' = [app EXCEPT !.strategy.long_window = value]
        /\ StrategyCalled("long_window.setter", <<>>, app'.strategy, NoResult)

\* strategy.calculate_indicators(data)
CalculateIndicators ==
    \E closes \in Series :
        /\ StrategyCalled("calculate_indicators", closes, app.strategy,
                          calculate_indicators(app.strategy, closes))
        /\ UNCHANGED app

\* strategy.check_signal(rows), on the rows calculate_indicators has just
\* returned or on rows of the caller's making.
CheckSignal ==
    \E rows \in HandRows \cup
                 (IF last.op = "calculate_indicators" /\ last.raised = "none"
                  THEN {last.ret} ELSE {}) :
        /\ StrategyCalled("check_signal", rows, app.strategy,
                          [raised |-> "none", ret |-> check_signal(rows)])
        /\ UNCHANGED app

StrategyNext == SetShortWindow \/ SetLongWindow \/ CalculateIndicators \/ CheckSignal

SpecStrategy == StrategyInit /\ [][StrategyNext]_vars

(***************************************************************************)
(* The live specification: the bot is configured and started.  The main    *)
(* thread runs buy_all / sell_all from the action menu, statement by       *)
(* statement; the LiveWindow thread runs _schedule_update, which reads the *)
(* trade history and then the two balances of the same Portfolio.  No lock *)
(* is taken by either.  A trader position is the line of portfolio.py it   *)
(* is about to run, a display position the line of app.py.                 *)
(***************************************************************************)
\* What the display shows of a Portfolio.
Ledger(pf) ==
    [trades |-> pf.trade_history, usdt |-> pf.usdt_balance, crypto |-> pf.crypto_balance]

IdleTrader ==
    [pc |-> "idle", op |-> "none", price |-> None, amount |-> None, quantity |-> None,
     start |-> NewPortfolio(Zero)]
IdleDisplay == [pc |-> "idle", shown |-> Ledger(NewPortfolio(Zero))]

\* start_bot: the LiveWindow thread is started beside the main thread.
LiveThreads(pf) ==
    [pc |-> "live", trader |-> IdleTrader, display |-> IdleDisplay, seen |-> {Ledger(pf)}]

\* configure_settings followed by start_bot.
LiveInit ==
    /\ \E capital \in Capitals :
          /\ portfolio = NewPortfolio(capital)
          /\ app = [configure_settings(NewApp, "BTCUSDT", capital, 2, 4)
                      EXCEPT !.is_running = TRUE]
          /\ threads = LiveThreads(portfolio)
    /\ files = ConfigureDataFile(dm_init([p \in Paths |-> Absent], DefaultPath), DefaultPath)
    /\ json_path = DefaultPath
    /\ last = AppCall("init", None, NoTrade)
    /\ prev = AppCall("init", None, NoTrade)
    /\ calls = 0

\* The main thread enters buy_all: a guard returns early, or execute_buy is
\* entered and has resolved amount_usdt and quantity (lines 149-166).
BuyAllBegin ==
    /\ threads.trader.pc = "idle"
    /\ calls < MaxLiveCalls
    /\ calls' = calls + 1
    /\ \E price \in LivePrices :
          LET o == buy_all(app, portfolio, price, calls + 1)
          IN  IF o.traded /\ o.raised = "none"
              THEN /\ threads' = [threads EXCEPT !.trader =
                          [pc |-> "167", op |-> "buy_all", price |-> price,
                           amount |-> portfolio.usdt_balance,
                           quantity |-> RDiv(portfolio.usdt_balance, price),
                           start |-> portfolio]]
                   /\ UNCHANGED <<last, prev>>
              ELSE /\ prev' = last
                   /\ last' = AppCall("buy_all", price, o)
                   /\ UNCHANGED threads
    /\ UNCHANGED <<portfolio, files, json_path, app>>

\* The main thread enters sell_all: a guard returns early, or execute_sell is
\* entered and has resolved quantity (lines 183-200).
SellAllBegin ==
    /\ threads.trader.pc = "idle"
    /\ calls < MaxLiveCalls
    /\ calls' = calls + 1
    /\ \E price \in LivePrices :
          LET o == sell_all(app, portfolio, price, calls + 1)
          IN  IF o.traded /\ o.raised = "none"
              THEN /\ threads' = [threads EXCEPT !.trader =
                          [pc |-> "201", op |-> "sell_all", price |-> price,
                           amount |-> RMul(portfolio.asset, price),
                           quantity |-> portfolio.asset,
                           start |-> portfolio]]
                   /\ UNCHANGED <<last, prev>>
              ELSE /\ prev' = last
                   /\ last' = AppCall("sell_all", price, o)
                   /\ UNCHANGED threads
    /\ UNCHANGED <<portfolio, files, json_path, app>>

\* The portfolio after the statement of portfolio.py at line pc, run with
\* the locals of trader t.
Statement(pf, t, timestamp) ==
    CASE t.pc = "167" -> [pf EXCEPT !.asset = RAdd(@, t.quantity)]
      [] t.pc = "168" -> [pf EXCEPT !.usdt_balance = RSub(@, t.amount)]
      [] t.pc = "115" -> [pf EXCEPT !.usdt_balance = RSub(@, RMul(t.price, t.quantity))]
      [] t.pc = "116" -> [pf EXCEPT !.crypto_balance = RAdd(@, t.quantity)]
      [] t.pc = "124" -> [pf EXCEPT !.trade_history =
                              Append(@, BuyTrade(t.price, t.quantity,
                                                 RMul(t.price, t.quantity), timestamp))]
      [] t.pc = "201" -> [pf EXCEPT !.asset = RSub(@, t.quantity)]
      [] t.pc = "202" -> [pf EXCEPT !.usdt_balance = RAdd(@, t.amount)]
      [] t.pc = "127" -> [pf EXCEPT !.crypto_balance = RSub(@, t.quantity)]
      [] t.pc = "128" -> [pf EXCEPT !.usdt_balance = RAdd(@, RMul(t.price, t.quantity))]
      [] t.pc = "136" -> [pf EXCEPT !.trade_history =
                              Append(@, SellTrade(t.price, t.quantity,
                                                  RMul(t.price, t.quantity), timestamp))]

\* The line that runs after line pc; "idle" after the append, when
\* update_balance and then execute_buy / execute_sell return.
NextLine(pc) ==
    CASE pc = "167" -> "168" [] pc = "168" -> "115" [] pc = "115" -> "116"
      [] pc = "116" -> "124" [] pc = "124" -> "idle"
      [] pc = "201" -> "202" [] pc = "202" -> "127" [] pc = "127" -> "128"
      [] pc = "128" -> "136" [] pc = "136" -> "idle"

\* The main thread runs its next statement of execute_buy / execute_sell /
\* update_balance.
TradeStatement ==
    /\ threads.trader.pc # "idle"
    /\ portfolio' = Statement(portfolio, threads.trader, calls)
    /\ IF NextLine(threads.trader.pc) = "idle"
       THEN /\ threads' = [threads EXCEPT !.trader = IdleTrader,
                                           !.seen = @ \cup {Ledger(portfolio')}]
            /\ prev' = last
            /\ last' = AppCall(threads.trader.op, threads.trader.price,
                               [raised |-> "none", ret |-> threads.trader.quantity,
                                traded |-> TRUE])
       ELSE /\ threads' = [threads EXCEPT !.trader.pc = NextLine(@)]
            /\ UNCHANGED <<last, prev>>
    /\ UNCHANGED <<calls, files, json_path, app>>

\* _schedule_update, line 154: trades = list(self.portfolio.trade_history).
\* From here on the display is taking a snapshot; seen collects the ledger
\* states between operations that exist while it does: the one at this
\* moment (the one before the operation that is running, if one is) and
\* the one after every operation that completes.
DisplayReadHistory ==
    /\ threads.display.pc \in {"idle", "shown"}
    /\ threads' = [threads EXCEPT
          !.display = [pc |-> "169",
                       shown |-> [@.shown EXCEPT !.trades = portfolio.trade_history]],
          !.seen = {IF threads.trader.pc = "idle" THEN Ledger(portfolio)
                    ELSE Ledger(threads.trader.start)}]
    /\ UNCHANGED <<portfolio, last, prev, calls, files, json_path, app>>

\* _schedule_update, line 169: self.portfolio.usdt_balance is read.
DisplayReadUsdt ==
    /\ threads.display.pc = "169"
    /\ threads' = [threads EXCEPT !.display.pc = "171",
                                  !.display.shown.usdt = portfolio.usdt_balance]
    /\ UNCHANGED <<portfolio, last, prev, calls, files, json_path, app>>

\* _schedule_update, line 171: self.portfolio.crypto_balance is read.
DisplayReadCrypto ==
    /\ threads.display.pc = "171"
    /\ threads' = [threads EXCEPT !.display.pc = "shown",
                                  !.display.shown.crypto = portfolio.crypto_balance]
    /\ UNCHANGED <<portfolio, last, prev, calls, files, json_path, app>>

LiveNext ==
    \/ BuyAllBegin
    \/ SellAllBegin
    \/ TradeStatement
    \/ DisplayReadHistory
    \/ DisplayReadUsdt
    \/ DisplayReadCrypto

SpecLive == LiveInit /\ [][LiveNext]_vars

(***************************************************************************)
(* The concurrent store specification: one thread runs save_state(state)   *)
(* while another runs load_data on the same DataManager.  open(path, "w")  *)
(* truncates the file; the text that json.dump writes reaches the file     *)
(* when the buffered file object is flushed on leaving the with block,     *)
(* and is written at the writer's own position, the start of the file.     *)
(* A position is the line of data_manager.py the thread is about to run.   *)
(***************************************************************************)
\* What the store may hold before the two calls: an intact state.
IntactContents ==
    {FileOf(EncodeState(DefaultState)),
     FileOf(EncodeState(StateDict(<<Trade1>>, R(50), R(5)))),
     FileOf(EncodeTrades(<<Trade1>>))}

\* open(path, "w"): the file exists and is empty.
Truncate(fs, path) == [fs EXCEPT ![path] = FileOf(<<>>)]

\* The text written at the start of a file: it replaces what the file held
\* there, and what the file held beyond its length stays.
WriteAtStart(fs, path, toks) ==
    [fs EXCEPT ![path] =
        FileOf(toks \o SubSeq(fs[path].toks, Len(toks) + 1, Len(fs[path].toks)))]

StoreThreads(state, old) ==
    [pc |-> "store",
     saver |-> [pc |-> "149", state |-> state],
     loader |-> [pc |-> "65", ret |-> Py("NoneType", None), raised |-> "none"],
     old |-> old]

\* A DataManager on an intact store; save_state(state) has normalised its
\* argument (lines 144-148) and load_data has been entered.
SaveLoadInit ==
    /\ \E c \in IntactContents, state \in SomeStates :
          /\ files = [p \in Paths |-> IF p = DefaultPath THEN c ELSE Absent]
          /\ threads = StoreThreads(NormalState(state), files)
    /\ json_path = DefaultPath
    /\ last = StoreCall("init", None, NoOutcome)
    /\ prev = StoreCall("init", None, NoOutcome)
    /\ calls = 0
    /\ portfolio = NewPortfolio(Zero)
    /\ app = NewApp

\* save_state, line 149: open(self.json_path, "w").
SaveStateOpen ==
    /\ threads.saver.pc = "149"
    /\ files' = Truncate(files, json_path)
    /\ threads' = [threads EXCEPT !.saver.pc = "150"]
    /\ UNCHANGED <<portfolio, last, prev, calls, json_path, app>>

\* save_state, line 150 and the end of the with block: the text is written.
SaveStateWrite ==
    /\ threads.saver.pc = "150"
    /\ files' = WriteAtStart(files, json_path, json_dump(Py("dict", threads.saver.state)))
    /\ threads' = [threads EXCEPT !.saver.pc = "done"]
    /\ UNCHANGED <<portfolio, last, prev, calls, json_path, app>>

\* load_data, lines 65-66: the file is opened and read, and its text parsed.
LoadDataRead ==
    /\ threads.loader.pc = "65"
    /\ LET file == files[json_path]
           r == json_load(file.toks)
       IN  threads' = [threads EXCEPT !.loader =
               IF ~file.exists THEN [@ EXCEPT !.pc = "79"]
               ELSE IF ~Decodable(file.toks)
               THEN [@ EXCEPT !.pc = "done", !.raised = "UnicodeDecodeError"]
               ELSE IF ~r.ok THEN [@ EXCEPT !.pc = "70"]
               ELSE [@ EXCEPT !.pc = "done", !.ret = Py(r.kind, r.v)]]
    /\ UNCHANGED <<portfolio, last, prev, calls, files, json_path, app>>

\* load_data, line 70 (after a JSONDecodeError) or 79 (after a
\* FileNotFoundError): open(self.json_path, "w").
LoadDataRecoverOpen ==
    /\ threads.loader.pc \in {"70", "79"}
    /\ files' = Truncate(files, json_path)
    /\ threads' = [threads EXCEPT !.loader.pc = "71"]
    /\ UNCHANGED <<portfolio, last, prev, calls, json_path, app>>

\* load_data, lines 71-76 (80-85): the default state is written and returned.
LoadDataRecoverWrite ==
    /\ threads.loader.pc = "71"
    /\ files' = WriteAtStart(files, json_path, json_dump(Py("dict", DefaultState)))
    /\ threads' = [threads EXCEPT !.loader.pc = "done",
                                  !.loader.ret = Py("dict", DefaultState)]
    /\ UNCHANGED <<portfolio, last, prev, calls, json_path, app>>

SaveLoadNext ==
    \/ SaveStateOpen
    \/ SaveStateWrite
    \/ LoadDataRead
    \/ LoadDataRecoverOpen
    \/ LoadDataRecoverWrite

SpecSaveLoad == SaveLoadInit /\ [][SaveLoadNext]_vars

(***************************************************************************)
(* The bot specification: the main thread calls start_bot and stop_bot     *)
(* (the choices 1 and 4 of action_menu) while the run_loop threads that    *)
(* start_bot created run beside it.  threads.run holds one record per      *)
(* run_loop thread ever started, in the order of their creation, each at   *)
(* a position of run_loop; threads.main is "join" while stop_bot waits in  *)
(* _run_thread.join(timeout=5), which returns when that thread has ended   *)
(* or when the timeout expires; time is not modelled, so the timeout may   *)
(* expire at any moment.                                                   *)
(***************************************************************************)
\* run_loop, line 590: for _ in range(60).
LoopTicks == 60

\* start_bot, lines 437-452: the app after the call, and whether the call got
\* past its three early returns.
start_bot(a) ==
    IF a.is_running THEN [app |-> a, started |-> FALSE]
    ELSE IF ~a.binance_client THEN [app |-> a, started |-> FALSE]
    ELSE IF a.pair = "" THEN [app |-> a, started |-> FALSE]
    ELSE [app |-> [a EXCEPT !.is_running = TRUE], started |-> TRUE]

\* stop_bot, lines 550-554: the app after the call, and whether the call got
\* past its early return.
stop_bot(a) ==
    IF ~a.is_running THEN [app |-> a, stopped |-> FALSE]
    ELSE [app |-> [a EXCEPT !.is_running = FALSE], stopped |-> TRUE]

\* A run_loop thread that start_bot has just started (lines 468-470).
RunLoopStart == [pc |-> "fetch", i |-> 0]

\* run_loop whose while loop (line 588) does not read the flag: only the
\* inner loop does.
run_loop_WhileTrue(t, is_running) ==
    CASE t.pc = "fetch" -> [pc |-> "while", i |-> 0]
      [] t.pc = "while" -> [pc |-> "for", i |-> 0]
      [] t.pc = "for" ->
            IF t.i = LoopTicks THEN [pc |-> "while", i |-> 0]
            ELSE IF ~is_running THEN [pc |-> "while", i |-> 0]
            ELSE [pc |-> "sleep", i |-> t.i]
      [] t.pc = "sleep" -> [pc |-> "for", i |-> t.i + 1]

\* run_loop: one step of a run_loop thread at position t, reading the flag
\* _is_running where the code reads it.  "fetch" is the historical-data
\* request of lines 579-584 (it returns or raises within its timeout, and the
\* exception is swallowed), "while" the test of line 588, "for" the loop head
\* and the test of lines 590-591, "sleep" line 592.
run_loop(t, is_running) ==
    CASE t.pc = "fetch" -> [pc |-> "while", i |-> 0]
      [] t.pc = "while" ->
            IF is_running THEN [pc |-> "for", i |-> 0] ELSE [pc |-> "done", i |-> 0]
      [] t.pc = "for" ->
            IF t.i = LoopTicks THEN [pc |-> "while", i |-> 0]
            ELSE IF ~is_running THEN [pc |-> "while", i |-> 0]
            ELSE [pc |-> "sleep", i |-> t.i]
      [] t.pc = "sleep" -> [pc |-> "for", i |-> t.i + 1]

\* Thread.is_alive of a run_loop thread.
is_alive(t) == t.pc # "done"

BotCall(op, was_running) == [op |-> op, was_running |-> was_running]

\* An App before or after configure_settings; tk is whether tkinter could be
\* imported (lines 19-24).
BotInit ==
    /\ \E a \in {NewApp, configure_settings(NewApp, "BTCUSDT", R(100), 2, 4)},
          tk \in BOOLEAN :
          /\ app = a
          /\ portfolio = NewPortfolio(IF a.has_portfolio THEN R(100) ELSE Zero)
          /\ threads = [pc |-> "bot", main |-> "idle", run |-> <<>>, tk |-> tk,
                        live_window |-> "none"]
    /\ files = [p \in Paths |-> Absent]
    /\ json_path = DefaultPath
    /\ last = BotCall("init", FALSE)
    /\ prev = BotCall("init", FALSE)
    /\ calls = 0

\* start_bot: past the early returns the flag is set, the LiveWindow is
\* started when tkinter is there, and a new run_loop thread is started.
StartBot ==
    /\ threads.main = "idle"
    /\ calls < MaxBotCalls
    /\ calls' = calls + 1
    /\ LET o == start_bot(app)
       IN  /\ app' = o.app
           /\ threads' =
                 IF o.started
                 THEN [threads EXCEPT
                         !.run = Append(@, RunLoopStart),
                         !.live_window = IF threads.tk THEN "started" ELSE @]
                 ELSE threads
    /\ last' = BotCall("start_bot", app.is_running)
    /\ prev' = last
    /\ UNCHANGED <<portfolio, files, json_path>>

\* stop_bot up to the join: past the early return the flag is cleared, the
\* LiveWindow is told to stop, and the main thread joins the latest run_loop
\* thread if it is alive (lines 564-565).
StopBot ==
    /\ threads.main = "idle"
    /\ calls < MaxBotCalls
    /\ calls' = calls + 1
    /\ LET o == stop_bot(app)
       IN  /\ app' = o.app
           /\ threads' =
                 IF o.stopped
                 THEN [threads EXCEPT
                         !.live_window = IF @ = "started" THEN "stopped" ELSE @,
                         !.main = IF /\ threads.run # <<>>
                                     /\ is_alive(threads.run[Len(threads.run)])
                                  THEN "join" ELSE "idle"]
                 ELSE threads
    /\ last' = BotCall("stop_bot", app.is_running)
    /\ prev' = last
    /\ UNCHANGED <<portfolio, files, json_path>>

\* stop_bot, line 565: join(timeout=5) returns, the thread having ended or
\* the timeout having expired.
StopBotReturn ==
    /\ threads.main = "join"
    /\ threads' = [threads EXCEPT !.main = "idle"]
    /\ UNCHANGED <<portfolio, last, prev, calls, files, json_path, app>>

\* The k-th run_loop thread takes a step.
RunLoopStep(k) ==
    /\ k \in DOMAIN threads.run
    /\ is_alive(threads.run[k])
    /\ threads' = [threads EXCEPT !.run[k] = run_loop(@, app.is_running)]
    /\ UNCHANGED <<portfolio, last, prev, calls, files, json_path, app>>

RunLoop == \E k \in 1..MaxBotCalls : RunLoopStep(k)

BotNext ==
    \/ StartBot
    \/ StopBot
    \/ StopBotReturn
    \/ RunLoop

SpecBot == BotInit /\ [][BotNext]_vars

\* Every started thread keeps being scheduled: the request of "fetch" ends
\* within its timeout, time.sleep(1) returns, and the interpreter switches
\* threads.
SpecBotFair == SpecBot /\ \A k \in 1..MaxBotCalls : WF_vars(RunLoopStep(k))

(***************************************************************************)
(* Claims about the Portfolio, checked under Spec.                         *)
(***************************************************************************)
TradeCall == last.op \in {"execute_buy", "execute_sell"}
Returned == TradeCall /\ last.raised = "none"

\* Every trade recorded so far was made at a price > 0, as every trade the
\* application makes is (App.buy_all and App.sell_all return when price <= 0).
PositivePrices(pf) ==
    \A i \in DOMAIN pf.trade_history : RGt(pf.trade_history[i].price, Zero)

\* C1: after every execute_buy / execute_sell call that returns, the fiat
\* balance and the asset balance are both >= 0 (stated for the ledgers all of
\* whose trades were made at prices > 0).
C1_BalancesNonNegative ==
    (Returned /\ PositivePrices(portfolio)) =>
        /\ RGe(portfolio.usdt_balance, Zero)
        /\ RGe(portfolio.crypto_balance, Zero)

\* The fiat amount the claims say a buy resolves to: the whole balance in auto
\* mode, percent% of it in percent mode, the explicit amount otherwise.
ClaimedBuyAmount(pf, call) ==
    IF call.mode \in {Omitted, "auto"} THEN pf.usdt_balance
    ELSE IF call.percent # None
         THEN RDiv(RMul(pf.usdt_balance, call.percent), R(100))
    ELSE call.size

\* The quantity the claims say a sell resolves to.
ClaimedSellQuantity(pf, call) ==
    IF call.mode \in {Omitted, "auto"} THEN pf.crypto_balance
    ELSE IF call.percent # None
         THEN RDiv(RMul(pf.crypto_balance, call.percent), R(100))
    ELSE call.size

\* C2: a buy at price p > 0 that returns, with resolved fiat amount a, returns
\* a/p, lowers the fiat balance by exactly a and raises the asset balance by
\* exactly a/p.
C2_BuyMovesAmount ==
    [][(last'.op = "execute_buy" /\ last'.raised = "none" /\ RGt(last'.price, Zero)) =>
          LET a == ClaimedBuyAmount(portfolio, last')
              q == RDiv(a, last'.price)
          IN  /\ last'.ret = q
              /\ portfolio'.usdt_balance = RSub(portfolio.usdt_balance, a)
              /\ portfolio'.crypto_balance = RAdd(portfolio.crypto_balance, q)]_vars

\* C3: a sell of resolved quantity q at price p > 0 that returns lowers the
\* asset balance by exactly q and raises the fiat balance by exactly q * p
\* (stated for the ledgers all of whose trades were made at prices > 0).
C3_SellMovesQuantity ==
    [][(/\ last'.op = "execute_sell" /\ last'.raised = "none"
        /\ RGt(last'.price, Zero) /\ PositivePrices(portfolio)) =>
          LET q == ClaimedSellQuantity(portfolio, last')
          IN  /\ portfolio'.crypto_balance = RSub(portfolio.crypto_balance, q)
              /\ portfolio'.usdt_balance =
                    RAdd(portfolio.usdt_balance, RMul(q, last'.price))]_vars

\* C4: a buy at a price > 0 with an explicit amount_usdt above the fiat
\* balance and no mode argument raises the insufficient-funds error and
\* changes nothing.
C4_ExplicitAmountAboveBalanceFails ==
    [][(/\ last'.op = "execute_buy"
        /\ RGt(last'.price, Zero)
        /\ RGt(portfolio.usdt_balance, Zero)
        /\ last'.mode = Omitted
        /\ last'.percent = None
        /\ last'.size # None
        /\ RGt(last'.size, portfolio.usdt_balance)) =>
          /\ last'.raised = "RuntimeError"
          /\ portfolio' = portfolio]_vars

\* C5: a buy or sell that ends by raising leaves both balances, the asset
\* counter and the trade history exactly as they were.
C5_RaisingCallChangesNothing ==
    [][(last'.op \in {"execute_buy", "execute_sell"} /\ last'.raised # "none") =>
          /\ portfolio'.usdt_balance = portfolio.usdt_balance
          /\ portfolio'.crypto_balance = portfolio.crypto_balance
          /\ portfolio'.asset = portfolio.asset
          /\ portfolio'.trade_history = portfolio.trade_history]_vars

\* A call raised although the ledger already held a trade and a changed balance.
C5_Witness ==
    /\ TradeCall
    /\ last.raised \in {"RuntimeError", "ValueError", "ZeroDivisionError"}
    /\ Len(portfolio.trade_history) > 0
    /\ portfolio.asset # Zero

C7_TradeMatchesBalanceChange ==
    [][(/\ last'.op \in {"execute_buy", "execute_sell"}
        /\ RGt(last'.price, Zero) /\ PositivePrices(portfolio)
        /\ \/ portfolio'.usdt_balance # portfolio.usdt_balance
           \/ portfolio'.crypto_balance # portfolio.crypto_balance) =>
          /\ Len(portfolio'.trade_history) = Len(portfolio.trade_history) + 1
          /\ SubSeq(portfolio'.trade_history, 1, Len(portfolio.trade_history))
                = portfolio.trade_history
          /\ LET t == portfolio'.trade_history[Len(portfolio'.trade_history)]
             IN  /\ t.price = last'.price
                 /\ t.quantity = last'.ret
                 /\ IF last'.op = "execute_buy"
                    THEN /\ t.side = "BUY"
                         /\ t.cost = RSub(portfolio.usdt_balance, portfolio'.usdt_balance)
                    ELSE /\ t.side = "SELL"
                         /\ t.proceeds =
                               RSub(portfolio'.usdt_balance, portfolio.usdt_balance)]_vars

\* C13: a sell that returns, returns the proceeds: the quantity sold times the
\* price, which is also what the fiat balance rose by (stated for prices > 0
\* and ledgers all of whose trades were made at prices > 0).
C13_SellReturnsProceeds ==
    [][(/\ last'.op = "execute_sell" /\ last'.raised = "none"
        /\ RGt(last'.price, Zero) /\ PositivePrices(portfolio)) =>
          LET quantity == RSub(portfolio.crypto_balance, portfolio'.crypto_balance)
          IN  /\ last'.ret = RMul(quantity, last'.price)
              /\ RSub(portfolio'.usdt_balance, portfolio.usdt_balance) = last'.ret]_vars

\* C14: a buy or a sell called with a price <= 0 raises (any exception is
\* taken for the invalid-parameter error) and leaves the balances, the asset
\* counter and the history as they were (stated for calls made with a fiat
\* balance > 0).
C14_NonPositivePriceFails ==
    [][(/\ last'.op \in {"execute_buy", "execute_sell"} /\ RLe(last'.price, Zero)
        /\ RGt(portfolio.usdt_balance, Zero)) =>
          /\ last'.raised # "none"
          /\ portfolio' = portfolio]_vars

\* C21: for a current_price >= 0, zero included, get_total_value_usdt returns
\* the fiat balance plus the asset balance times the price (the fiat balance
\* itself at price 0), and leaves the balances, the asset counter and the
\* history as they were.
C21_TotalValueIsFiatPlusHoldings ==
    [][(last'.op = "get_total_value_usdt" /\ RGe(last'.price, Zero)) =>
          /\ last'.raised = "none"
          /\ RSub(last'.ret, portfolio.usdt_balance) =
                RMul(portfolio.crypto_balance, last'.price)
          /\ last'.price = Zero => last'.ret = portfolio.usdt_balance
          /\ portfolio' = portfolio]_vars

\* A ledger that holds an asset and owes fiat was valued at a price > 0.
C21_Witness ==
    /\ last.op = "get_total_value_usdt"
    /\ last.price = R(10)
    /\ portfolio.usdt_balance = R(-50)
    /\ portfolio.crypto_balance = R(5)
    /\ last.ret = Zero

\* The same ledger was valued at price 0.
C21_WitnessZeroPrice ==
    /\ last.op = "get_total_value_usdt"
    /\ last.price = Zero
    /\ portfolio.crypto_balance = R(5)
    /\ last.ret = R(-50)

\* C22: every trade recorded in trade_history has price > 0 and quantity > 0.
C22_TradesArePositive ==
    \A i \in DOMAIN portfolio.trade_history :
        /\ RGt(portfolio.trade_history[i].price, Zero)
        /\ RGt(portfolio.trade_history[i].quantity, Zero)

\* a is a prefix of b.
IsPrefix(a, b) == Len(a) <= Len(b) /\ SubSeq(b, 1, Len(a)) = a

\* C23: trade_history is append-only: the history before any operation is a
\* prefix of the history after it.
C23_HistoryIsAppendOnly ==
    [][IsPrefix(portfolio.trade_history, portfolio'.trade_history)]_vars

\* A third trade was recorded after two others.
C23_Witness ==
    /\ Returned
    /\ Len(portfolio.trade_history) = 3
    /\ portfolio.trade_history[1].timestamp = 1
    /\ portfolio.trade_history[3].timestamp = 3

\* C24: after any sequence of execute_buy and execute_sell calls on a fresh
\* Portfolio, the asset counter equals crypto_balance.
C24_AssetEqualsCryptoBalance ==
    portfolio.asset = portfolio.crypto_balance

\* A part of a holding was bought and then sold in manual mode.
C24_Witness ==
    /\ last.op = "execute_sell"
    /\ last.raised = "none"
    /\ last.mode = "manual"
    /\ RGt(last.ret, Zero)
    /\ RGt(portfolio.asset, Zero)

(***************************************************************************)
(* Claims about the Portfolio with its setters, checked under SpecSetters. *)
(***************************************************************************)
\* C15: a sell whose resolved quantity exceeds crypto_balance raises the
\* insufficient-asset error (RuntimeError) and leaves the balances, the asset
\* counter and the history as they were.
C15_SellAboveCryptoBalanceFails ==
    [][(/\ last'.op = "execute_sell"
        /\ SellQuantity(portfolio, last'.size, last'.percent, last'.mode) # None
        /\ RGt(SellQuantity(portfolio, last'.size, last'.percent, last'.mode),
               portfolio.crypto_balance)) =>
          /\ last'.raised = "RuntimeError"
          /\ portfolio' = portfolio]_vars

(***************************************************************************)
(* Claims about the DataManager, checked under SpecStore.                  *)
(***************************************************************************)
\* C9: save_state(S) directly followed by charge_data() returns S (its
\* trades list and both balances), for every well-formed S, the empty state
\* included.
C9_SaveChargeRoundTrip ==
    (prev.op = "save_state" /\ WellFormed(prev.arg) /\ last.op = "charge_data") =>
        /\ last.raised = "none"
        /\ last.ret = prev.arg

\* A state with two trades, one a sell with a fractional quantity, and a
\* negative fractional balance was saved and then read back.
C9_Witness ==
    /\ prev.op = "save_state"
    /\ prev.arg = StateDict(<<Trade1, Trade2>>, [n |-> -35, d |-> 2], Zero)
    /\ last.op = "charge_data"

\* The empty state was saved and then read back.
C9_WitnessEmpty ==
    /\ prev.op = "save_state"
    /\ prev.arg = DefaultState
    /\ last.op = "charge_data"

\* The file is absent, or its content is not the text of one JSON value.
Unreadable(file) ==
    ~file.exists \/ ~Decodable(file.toks) \/ ~json_load(file.toks).ok

\* C10: load_data on an absent or unparseable file returns the default empty
\* state without raising; a save_state that follows succeeds, and what it
\* saved is what the next load returns.  (Absent files and text that is not
\* JSON are recovered; a file whose bytes are not UTF-8 makes load_data raise.)
C10_LoadRecovers ==
    /\ [][(last'.op = "load_data" /\ Unreadable(files[json_path])) =>
             /\ last'.raised = "none"
             /\ last'.ret = Py("dict", DefaultState)]_vars
    /\ []((prev.op = "load_data" /\ prev.caught # "none" /\ last.op = "save_state") =>
             /\ last.raised = "none"
             /\ load_data(files, json_path) =
                   Outcome(files, Py("dict", NormalState(last.arg)), "none", "none"))

\* The file holds the legacy layout: the text of a bare JSON list.
Legacy(file) ==
    /\ file.exists
    /\ Decodable(file.toks)
    /\ json_load(file.toks).ok
    /\ json_load(file.toks).kind = "list"
LegacyTrades(file) == json_load(file.toks).v

\* C11 as stated: every read of a legacy store through the DataManager,
\* load_data and charge_data alike, returns the structured form
\* {trades: L, usdt_balance: null, crypto_balance: null}, never the bare list.
C11_LegacyReadIsStructured ==
    [][(Legacy(files[json_path]) /\ last'.op \in {"load_data", "charge_data"}) =>
          /\ last'.raised = "none"
          /\ last'.ret \in {StateDict(LegacyTrades(files[json_path]), None, None),
                            Py("dict", StateDict(LegacyTrades(files[json_path]), None, None))}]_vars

\* C11 amended: charge_data of a legacy store returns the structured form
\* {trades: L, usdt_balance: null, crypto_balance: null}; load_data returns
\* the bare list L as it is stored, and leaves the file in the legacy layout.
C11_ChargeDataUpgradesLegacy ==
    [][Legacy(files[json_path]) =>
          /\ last'.op = "charge_data" =>
                /\ last'.raised = "none"
                /\ last'.ret = StateDict(LegacyTrades(files[json_path]), None, None)
          /\ last'.op = "load_data" =>
                /\ last'.raised = "none"
                /\ last'.ret = Py("list", LegacyTrades(files[json_path]))
                /\ files' = files]_vars

\* A legacy store holding a trade was read through charge_data.
C11_Witness ==
    /\ last.op = "charge_data"
    /\ Legacy(files[json_path])
    /\ last.ret = StateDict(<<Trade1>>, None, None)

\* The state a caller reads from the store.
Stored(fs, path) == charge_data(fs, path)

\* C12: an append_trade(t) that returns leaves the store as load, append, save
\* would: the stored trades are the trades stored before followed by t, the
\* stored balances are unchanged; two appends in a row are stored in call order.
C12_AppendTradeIsLoadAppendSave ==
    /\ [][(last'.op = "append_trade" /\ last'.raised = "none") =>
             LET before == Stored(files, json_path)
                 after == Stored(files', json_path)
                 appended == [before.ret EXCEPT !.trades = Append(@, last'.arg)]
             IN  /\ before.raised = "none"
                 /\ after.raised = "none"
                 /\ after.ret.trades = Append(before.ret.trades, last'.arg)
                 /\ after.ret.usdt_balance = before.ret.usdt_balance
                 /\ after.ret.crypto_balance = before.ret.crypto_balance
                 /\ after.ret = Stored(save_state(before.files, json_path, appended).files,
                                       json_path).ret]_vars
    /\ []((/\ prev.op = "append_trade" /\ prev.raised = "none"
           /\ last.op = "append_trade" /\ last.raised = "none") =>
             LET trades == Stored(files, json_path).ret.trades
             IN  /\ Len(trades) >= 2
                 /\ SubSeq(trades, Len(trades) - 1, Len(trades)) = <<prev.arg, last.arg>>)

\* Two trades were appended in a row to a store that held a trade and balances.
C12_Witness ==
    /\ prev.op = "append_trade" /\ prev.raised = "none"
    /\ last.op = "append_trade" /\ last.raised = "none"
    /\ Stored(files, json_path).ret = StateDict(<<Trade1, Trade2, Trade1>>, R(50), R(5))

(***************************************************************************)
(* Claims about the strategy, checked under SpecStrategy.                  *)
(***************************************************************************)
\* The positions of the rows that have both averages.
Usable(rows) == {i \in DOMAIN rows : HasAverages(rows[i])}
MaxOf(S) == CHOOSE i \in S : \A j \in S : j <= i

C16_WitnessBuy ==
    /\ last.op = "check_signal"
    /\ last.data = calculate_indicators(MovingAverageStrategy(1, 2), <<R(2), R(2), R(4)>>).ret
    /\ last.ret = "BUY"

RECURSIVE SumFromTo(_, _, _)
\* closes[lo] + ... + closes[hi]
SumFromTo(closes, lo, hi) ==
    IF lo > hi THEN Zero ELSE RAdd(SumFromTo(closes, lo, hi - 1), closes[hi])

\* ma is the mean of closes[max(1, i - period + 1) .. i].
IsTrailingMean(ma, closes, i, period) ==
    LET lo == Max(1, i - period + 1)
    IN  /\ ma # None
        /\ RMul(ma, R(i - lo + 1)) = SumFromTo(closes, lo, i)

C18_SnapshotIsBeforeOrAfter ==
    (threads.pc = "live" /\ threads.display.pc = "shown") =>
        threads.display.shown \in threads.seen

(***************************************************************************)
(* Claims about a save and a load that run together, checked under         *)
(* SpecSaveLoad.                                                           *)
(***************************************************************************)
\* C19: a load_data that runs while a save_state runs returns the state
\* stored before the save or the state saved, never another one, and once
\* both have finished the store holds the state saved.
C19_SaveIsAtomicForReaders ==
    threads.pc = "store" =>
        /\ threads.loader.pc = "done" =>
              /\ threads.loader.raised = "none"
              /\ threads.loader.ret \in {load_data(threads.old, json_path).ret,
                                          Py("dict", threads.saver.state)}
        /\ (threads.loader.pc = "done" /\ threads.saver.pc = "done") =>
              load_data(files, json_path) =
                  Outcome(files, Py("dict", threads.saver.state), "none", "none")

(***************************************************************************)
(* Claims about the App, checked under SpecApp.                            *)
(***************************************************************************)
RECURSIVE IsSubsequence(_, _)
IsSubsequence(a, b) ==
    IF a = <<>> THEN TRUE
    ELSE IF b = <<>> THEN FALSE
    ELSE IF Head(a) = Head(b) THEN IsSubsequence(Tail(a), Tail(b))
    ELSE IsSubsequence(a, Tail(b))

\* The trades list a load of the store returns.
StoredTrades ==
    LET o == charge_data(files, json_path)
    IN  IF o.raised = "none" THEN o.ret.trades ELSE <<>>

\* C25: buy_all leaves the Portfolio as it was when the fiat balance is <= 0
\* or the price is <= 0, and sell_all when the asset balance is <= 0 or the
\* price is <= 0.
C25_GuardedCallsChangeNothing ==
    [][/\ (/\ last'.op = "buy_all"
            /\ (RLe(portfolio.usdt_balance, Zero) \/ RLe(last'.price, Zero))) =>
              (portfolio' = portfolio /\ last'.raised = "none")
       /\ (/\ last'.op = "sell_all"
            /\ (RLe(portfolio.crypto_balance, Zero) \/ RLe(last'.price, Zero))) =>
              (portfolio' = portfolio /\ last'.raised = "none")]_vars

\* buy_all was refused at an available price because the fiat balance, after
\* an earlier buy, is not above 0.
C25_Witness ==
    /\ last.op = "buy_all"
    /\ RGt(last.price, Zero)
    /\ ~last.traded
    /\ app.has_portfolio
    /\ RLe(portfolio.usdt_balance, Zero)
    /\ Len(portfolio.trade_history) = 1

\* sell_all was refused because the price was unavailable, with an asset held.
C25_WitnessNoPrice ==
    /\ last.op = "sell_all"
    /\ last.price = Zero
    /\ RGt(portfolio.crypto_balance, Zero)

\* short_window <= 0, long_window <= 0 or short_window >= long_window.
BadWindows(strategy) ==
    \/ strategy.short_window <= 0
    \/ strategy.long_window <= 0
    \/ strategy.short_window >= strategy.long_window

\* C20: a configure_settings call with bad window sizes (the windows it was
\* given are those of the strategy it has set) ends with an error, and after
\* it no Portfolio exists.
C20_BadWindowsAbortConfiguration ==
    (last.op = "configure_settings" /\ app.strategy.set /\ BadWindows(app.strategy)) =>
        /\ last.raised # "none"
        /\ ~app.has_portfolio

\* C8: every trade App.buy_all / App.sell_all has executed is recorded in the
\* store: a load returns a trades list that contains them all, in order (and
\* so it does after a restart, which writes no trade).
C8_ExecutedTradesAreStored ==
    app.has_portfolio => IsSubsequence(portfolio.trade_history, StoredTrades)

(***************************************************************************)
(* Claims about start_bot, stop_bot and run_loop, checked under            *)
(* SpecBotFair.                                                            *)
(***************************************************************************)
\* Every run_loop thread ever started has ended.
AllRunLoopsDone == \A k \in DOMAIN threads.run : ~is_alive(threads.run[k])

\* C26: once stop_bot is called on a running bot, every run_loop thread
\* eventually ends unless start_bot is called again, and is_running is false
\* until start_bot is called again; a start_bot call made while is_running is
\* true starts no run_loop thread.
C26_StopEndsRunLoop ==
    /\ (last.op = "stop_bot" /\ last.was_running) ~>
          (AllRunLoopsDone \/ last.op = "start_bot")
    /\ [](last.op = "stop_bot" => ~app.is_running)
    /\ [][(last'.op = "start_bot" /\ calls' = calls + 1 /\ app.is_running) =>
            threads'.run = threads.run]_vars

\* A second start_bot on a running bot started no second thread, stop_bot
\* followed, and the one run_loop thread has ended.
C26_Witness ==
    /\ prev.op = "start_bot"
    /\ prev.was_running
    /\ last.op = "stop_bot"
    /\ last.was_running
    /\ threads.main = "idle"
    /\ threads.run = <<[pc |-> "done", i |-> 0]>>

====
